---- MODULE Spec2Model ----
(***************************************************************************)
(* Double-entry derivation pipeline of the bookkeeping application:        *)
(*   Transactions -> generateJournal -> generateLedger -> balance sheet.   *)
(*                                                                         *)
(* Amounts are whole rupiah: the add-transaction form is an                *)
(* <input type="number" min="0"> with the default step of 1 and the seed   *)
(* data is integral, so Number(t.amount) is an integer and JavaScript's    *)
(* arithmetic on it is exact; amounts are modelled as integers.            *)
(***************************************************************************)
EXTENDS Integers, Sequences, FiniteSets

VARIABLES
    transactions,       \* the transaction list the pages are rendered from
    journal,            \* result of generateJournal
    ledgerList,         \* result of generateLedger
    balanceSheetData,   \* reports page: balance sheet
    profitLossData,     \* reports page: monthly profit and loss
    cashFlowData,       \* reports page: cash flow
    capitalChangeData,  \* reports page: capital change
    salesData,          \* reports page: sales
    firstRun,           \* journal and ledger of the first run of the pipeline
    now,                \* new Date(): the browser's local year and month
    tz,                 \* the browser's time zone
    db,                 \* the rows of the datastore's transactions table
    requests,           \* datastore calls the application is awaiting
    nextId,             \* the next key the datastore generates
    newTransaction,     \* the fields of the add-transaction form
    showAddTransaction, \* the add-transaction modal is open
    showAddService,     \* the add-service modal is open
    services,           \* the service list
    page,               \* the page whose list is scrolled
    listLength,         \* the number of items of that list
    displayedCount,     \* the page's displayedCount
    isLoadingMore,      \* the page's isLoadingMore
    timers,             \* setTimeout callbacks not yet run
    pc

reports == <<balanceSheetData, profitLossData, cashFlowData, capitalChangeData, salesData>>
env == <<now, tz>>
rendered == <<journal, ledgerList, reports>>
app == <<db, requests, nextId>>
form == <<newTransaction, showAddTransaction, showAddService, services>>
scroll == <<page, listLength, displayedCount, isLoadingMore, timers>>

vars == <<transactions, journal, ledgerList, reports, firstRun, env, app, form, scroll, pc>>

(***************************************************************************)
(* Bounds of the model.                                                    *)
(***************************************************************************)
MaxLen == 2
MaxAmount == 2

\* The (date, description) pairs the modelled records carry.
DatedDescriptions ==
    {[date |-> "2026-01-15", description |-> "Cuci AC Split 0.5 - 1 PK"],
     [date |-> "2026-02-10", description |-> "Bensin Operasional"]}

(***************************************************************************)
(* types/index.ts: Transaction.  created_at is read by no derivation.      *)
(***************************************************************************)
TransactionType == {"income", "expense"}
PaymentStatus == {"paid", "unpaid"}

\* The fields of a record other than its id.
TransactionFields ==
    [text : DatedDescriptions, amount : 0..MaxAmount,
     type : TransactionType, payment_status : PaymentStatus]

\* What reaches generateJournal when nothing has validated the record:
\* amount is any number, type and payment_status any string.
RawTransactionFields ==
    [text : DatedDescriptions, amount : (-1)..MaxAmount,
     type : TransactionType \cup {"transfer"},
     payment_status : PaymentStatus \cup {"pending"}]

Transaction(id, f) ==
    [id |-> id, date |-> f.text.date, description |-> f.text.description,
     amount |-> f.amount, type |-> f.type, payment_status |-> f.payment_status]

\* The list of n records with these fields; ids are distinct keys, here 1..n.
TransactionList(n, f) == [i \in 1..n |-> Transaction(i, f[i])]

(***************************************************************************)
(* 1. Chart of Accounts                                                    *)
(***************************************************************************)
\* Object.values / Object.keys order of CHART_OF_ACCOUNTS (integer-like keys
\* ascending, which is also the order they are written in).
ChartCodes == <<"101", "102", "201", "301", "302", "303", "401", "501">>

\* Variant: the receivable account is kept on the credit side.
CHART_OF_ACCOUNTS_ReceivableCredit ==
    [c \in {ChartCodes[i] : i \in 1..Len(ChartCodes)} |->
       CASE c = "101" -> [code |-> "101", name |-> "Kas & Bank", type |-> "Asset", normalBalance |-> "Debit"]
         [] c = "102" -> [code |-> "102", name |-> "Piutang Usaha", type |-> "Asset", normalBalance |-> "Credit"]
         [] c = "201" -> [code |-> "201", name |-> "Utang Usaha", type |-> "Liability", normalBalance |-> "Credit"]
         [] c = "301" -> [code |-> "301", name |-> "Modal Pemilik", type |-> "Equity", normalBalance |-> "Credit"]
         [] c = "302" -> [code |-> "302", name |-> "Laba Ditahan", type |-> "Equity", normalBalance |-> "Credit"]
         [] c = "303" -> [code |-> "303", name |-> "Prive", type |-> "Equity", normalBalance |-> "Debit"]
         [] c = "401" -> [code |-> "401", name |-> "Pendapatan Jasa", type |-> "Revenue", normalBalance |-> "Credit"]
         [] c = "501" -> [code |-> "501", name |-> "Beban Operasional", type |-> "Expense", normalBalance |-> "Debit"]]

CHART_OF_ACCOUNTS ==
    [c \in {ChartCodes[i] : i \in 1..Len(ChartCodes)} |->
       CASE c = "101" -> [code |-> "101", name |-> "Kas & Bank", type |-> "Asset", normalBalance |-> "Debit"]
         [] c = "102" -> [code |-> "102", name |-> "Piutang Usaha", type |-> "Asset", normalBalance |-> "Debit"]
         [] c = "201" -> [code |-> "201", name |-> "Utang Usaha", type |-> "Liability", normalBalance |-> "Credit"]
         [] c = "301" -> [code |-> "301", name |-> "Modal Pemilik", type |-> "Equity", normalBalance |-> "Credit"]
         [] c = "302" -> [code |-> "302", name |-> "Laba Ditahan", type |-> "Equity", normalBalance |-> "Credit"]
         [] c = "303" -> [code |-> "303", name |-> "Prive", type |-> "Equity", normalBalance |-> "Debit"]
         [] c = "401" -> [code |-> "401", name |-> "Pendapatan Jasa", type |-> "Revenue", normalBalance |-> "Credit"]
         [] c = "501" -> [code |-> "501", name |-> "Beban Operasional", type |-> "Expense", normalBalance |-> "Debit"]]

(***************************************************************************)
(* 2. Journal Entries                                                      *)
(***************************************************************************)
JournalEntryLine(accountId, debit, credit) ==
    [accountId |-> accountId, accountName |-> CHART_OF_ACCOUNTS[accountId].name,
     debit |-> debit, credit |-> credit]

\* Variant: a paid expense debits cash instead of crediting it.
JournalLines_PaidExpenseDebitsCash(t) ==
    LET amount == t.amount IN
    IF t.type = "income"
    THEN <<JournalEntryLine("401", 0, amount)>> \o
         (IF t.payment_status = "paid"
          THEN <<JournalEntryLine("101", amount, 0)>>
          ELSE <<JournalEntryLine("102", amount, 0)>>)
    ELSE IF t.type = "expense"
    THEN <<JournalEntryLine("501", amount, 0)>> \o
         (IF t.payment_status = "paid"
          THEN <<JournalEntryLine("101", amount, 0)>>
          ELSE <<JournalEntryLine("201", 0, amount)>>)
    ELSE <<>>

\* Variant: income always debits cash, whatever the payment status.
JournalLines_IncomeAlwaysCash(t) ==
    LET amount == t.amount IN
    IF t.type = "income"
    THEN <<JournalEntryLine("401", 0, amount), JournalEntryLine("101", amount, 0)>>
    ELSE IF t.type = "expense"
    THEN <<JournalEntryLine("501", amount, 0)>> \o
         (IF t.payment_status = "paid"
          THEN <<JournalEntryLine("101", 0, amount)>>
          ELSE <<JournalEntryLine("201", 0, amount)>>)
    ELSE <<>>

\* Variant: the revenue line carries the amount on both sides.
JournalLines_RevenueBothSides(t) ==
    LET amount == t.amount IN
    IF t.type = "income"
    THEN <<JournalEntryLine("401", amount, amount)>> \o
         (IF t.payment_status = "paid"
          THEN <<JournalEntryLine("101", amount, 0)>>
          ELSE <<JournalEntryLine("102", amount, 0)>>)
    ELSE IF t.type = "expense"
    THEN <<JournalEntryLine("501", amount, 0)>> \o
         (IF t.payment_status = "paid"
          THEN <<JournalEntryLine("101", 0, amount)>>
          ELSE <<JournalEntryLine("201", 0, amount)>>)
    ELSE <<>>

\* The body of the map callback: the lines pushed for one transaction.
JournalLines(t) ==
    LET amount == t.amount IN
    IF t.type = "income"
    THEN <<JournalEntryLine("401", 0, amount)>> \o
         (IF t.payment_status = "paid"
          THEN <<JournalEntryLine("101", amount, 0)>>
          ELSE <<JournalEntryLine("102", amount, 0)>>)
    ELSE IF t.type = "expense"
    THEN <<JournalEntryLine("501", amount, 0)>> \o
         (IF t.payment_status = "paid"
          THEN <<JournalEntryLine("101", 0, amount)>>
          ELSE <<JournalEntryLine("201", 0, amount)>>)
    ELSE <<>>

JournalEntry(t) ==
    [id |-> t.id, date |-> t.date, description |-> t.description,
     lines |-> JournalLines(t)]

\* Variant: transactions of amount 0 are filtered out before the map.
generateJournal_SkipZero(txs) ==
    LET IsNonZero(t) == t.amount # 0
        kept == SelectSeq(txs, IsNonZero)
    IN [i \in 1..Len(kept) |-> JournalEntry(kept[i])]

generateJournal(txs) == [i \in 1..Len(txs) |-> JournalEntry(txs[i])]

(***************************************************************************)
(* 3. General Ledger                                                       *)
(***************************************************************************)
\* Variant: the record ledger lives outside the function and is initialized
\* only once, so a later call starts from what the previous call posted.
InitialLedger_KeptAcrossCalls ==
    IF ledgerList = <<>>
    THEN [c \in DOMAIN CHART_OF_ACCOUNTS |->
            [code |-> CHART_OF_ACCOUNTS[c].code, name |-> CHART_OF_ACCOUNTS[c].name,
             type |-> CHART_OF_ACCOUNTS[c].type, balance |-> 0, entries |-> <<>>]]
    ELSE [c \in {ledgerList[i].code : i \in 1..Len(ledgerList)} |->
            ledgerList[CHOOSE i \in 1..Len(ledgerList) : ledgerList[i].code = c]]

\* "Initialize all accounts": the record ledger, keyed by account code.
InitialLedger ==
    [c \in DOMAIN CHART_OF_ACCOUNTS |->
       [code |-> CHART_OF_ACCOUNTS[c].code, name |-> CHART_OF_ACCOUNTS[c].name,
        type |-> CHART_OF_ACCOUNTS[c].type, balance |-> 0, entries |-> <<>>]]

\* Variant: every account is folded as debit - credit.
PostLine_IgnoreNormalBalance(ledger, entry, line) ==
    IF line.accountId \in DOMAIN ledger
    THEN LET account == ledger[line.accountId]
             posted == [date |-> entry.date, description |-> entry.description,
                        debit |-> line.debit, credit |-> line.credit]
             Max(a, b) == IF a >= b THEN a ELSE b
         IN [ledger EXCEPT ![line.accountId] =
               [account EXCEPT
                  !.entries = Append(account.entries, posted),
                  !.balance =
                     account.balance + (line.debit - line.credit)]]
    ELSE ledger

\* Variant: the balance is assigned (=) instead of accumulated (+=).
PostLine_Overwrite(ledger, entry, line) ==
    IF line.accountId \in DOMAIN ledger
    THEN LET account == ledger[line.accountId]
             posted == [date |-> entry.date, description |-> entry.description,
                        debit |-> line.debit, credit |-> line.credit]
             Max(a, b) == IF a >= b THEN a ELSE b
         IN [ledger EXCEPT ![line.accountId] =
               [account EXCEPT
                  !.entries = Append(account.entries, posted),
                  !.balance =
                     IF CHART_OF_ACCOUNTS[account.code].normalBalance = "Debit"
                     THEN line.debit - line.credit
                     ELSE line.credit - line.debit]]
    ELSE ledger

\* Variant: the posting is put in front of the history (unshift).
PostLine_Unshift(ledger, entry, line) ==
    IF line.accountId \in DOMAIN ledger
    THEN LET account == ledger[line.accountId]
             posted == [date |-> entry.date, description |-> entry.description,
                        debit |-> line.debit, credit |-> line.credit]
             Max(a, b) == IF a >= b THEN a ELSE b
         IN [ledger EXCEPT ![line.accountId] =
               [account EXCEPT
                  !.entries = <<posted>> \o account.entries,
                  !.balance =
                     IF CHART_OF_ACCOUNTS[account.code].normalBalance = "Debit"
                     THEN account.balance + (line.debit - line.credit)
                     ELSE account.balance + (line.credit - line.debit)]]
    ELSE ledger

\* Variant: a running balance is never let below zero.
PostLine_ClampAtZero(ledger, entry, line) ==
    IF line.accountId \in DOMAIN ledger
    THEN LET account == ledger[line.accountId]
             posted == [date |-> entry.date, description |-> entry.description,
                        debit |-> line.debit, credit |-> line.credit]
             Max(a, b) == IF a >= b THEN a ELSE b
         IN [ledger EXCEPT ![line.accountId] =
               [account EXCEPT
                  !.entries = Append(account.entries, posted),
                  !.balance =
                     IF CHART_OF_ACCOUNTS[account.code].normalBalance = "Debit"
                     THEN Max(0, account.balance + (line.debit - line.credit))
                     ELSE Max(0, account.balance + (line.credit - line.debit))]]
    ELSE ledger

\* The body of entry.lines.forEach: post one line of one journal entry.
PostLine(ledger, entry, line) ==
    IF line.accountId \in DOMAIN ledger
    THEN LET account == ledger[line.accountId]
             posted == [date |-> entry.date, description |-> entry.description,
                        debit |-> line.debit, credit |-> line.credit]
         IN [ledger EXCEPT ![line.accountId] =
               [account EXCEPT
                  !.entries = Append(account.entries, posted),
                  !.balance =
                     IF CHART_OF_ACCOUNTS[account.code].normalBalance = "Debit"
                     THEN account.balance + (line.debit - line.credit)
                     ELSE account.balance + (line.credit - line.debit)]]
    ELSE ledger

\* entry.lines.forEach from line k on.
RECURSIVE PostLines(_, _, _)
PostLines(ledger, entry, k) ==
    IF k > Len(entry.lines) THEN ledger
    ELSE PostLines(PostLine(ledger, entry, entry.lines[k]), entry, k + 1)

\* journal.forEach from entry i on.
RECURSIVE PostEntries(_, _, _)
PostEntries(ledger, jrnl, i) ==
    IF i > Len(jrnl) THEN ledger
    ELSE PostEntries(PostLines(ledger, jrnl[i], 1), jrnl, i + 1)

\* Object.values(ledger): the accounts in key order.
ObjectValues(ledger) == [i \in 1..Len(ChartCodes) |-> ledger[ChartCodes[i]]]

\* Variant: only the accounts that received a posting are returned.
generateLedger_TouchedOnly(jrnl) ==
    LET IsTouched(a) == a.entries # <<>>
    IN SelectSeq(ObjectValues(PostEntries(InitialLedger, jrnl, 1)), IsTouched)

generateLedger(jrnl) == ObjectValues(PostEntries(InitialLedger, jrnl, 1))

(***************************************************************************)
(* 4. Reports page: the ledger-based balance sheet                         *)
(***************************************************************************)
\* ledgerList.reduce((acc, curr) => ({ ...acc, [curr.code]: curr }), {}):
\* a later account with the same code overwrites an earlier one.
ledgerMap(list) ==
    [c \in {list[i].code : i \in 1..Len(list)} |->
       list[CHOOSE i \in 1..Len(list) :
              /\ list[i].code = c
              /\ \A j \in 1..Len(list) : list[j].code = c => j <= i]]

\* ledgerMap[code]?.balance || 0
BalanceOf(lmap, code) == IF code \in DOMAIN lmap THEN lmap[code].balance ELSE 0

BalanceSheet(list) ==
    LET lmap == ledgerMap(list) IN
    [assets |->
       [cash |-> BalanceOf(lmap, "101"),
        accountsReceivable |-> BalanceOf(lmap, "102"),
        total |-> BalanceOf(lmap, "101") + BalanceOf(lmap, "102")],
     liabilities |->
       [accountsPayable |-> BalanceOf(lmap, "201"),
        total |-> BalanceOf(lmap, "201")],
     equity |->
       [retainedEarnings |-> BalanceOf(lmap, "401") - BalanceOf(lmap, "501"),
        capital |-> BalanceOf(lmap, "301"),
        total |-> BalanceOf(lmap, "301")
                    + (BalanceOf(lmap, "401") - BalanceOf(lmap, "501"))]]

(***************************************************************************)
(* 5. Reports page: dates                                                  *)
(***************************************************************************)
\* new Date("YYYY-MM-DD"): a date-only string is read as midnight UTC.
\* Months are counted from 0, as Date does.
ParseDate(d) ==
    CASE d = "2026-01-15" -> [year |-> 2026, month |-> 0, day |-> 15]
      [] d = "2026-02-10" -> [year |-> 2026, month |-> 1, day |-> 10]
      [] d = "2026-03-01" -> [year |-> 2026, month |-> 2, day |-> 1]
      [] d = "2026-01-01" -> [year |-> 2026, month |-> 0, day |-> 1]
      [] d = "2026-11-05" -> [year |-> 2026, month |-> 10, day |-> 5]

\* Hours the browser's local time is ahead of UTC.
UtcOffset(zone) ==
    CASE zone = "Asia/Jakarta" -> 7
      [] zone = "America/New_York" -> -5

\* The local calendar day of midnight UTC: the same day east of Greenwich,
\* the day before west of it.
LocalDate(d, zone) ==
    LET utc == ParseDate(d) IN
    IF UtcOffset(zone) >= 0 THEN utc
    ELSE IF utc.day > 1 THEN [utc EXCEPT !.day = utc.day - 1]
    ELSE IF utc.month > 0 THEN [year |-> utc.year, month |-> utc.month - 1, day |-> 28]
    ELSE [year |-> utc.year - 1, month |-> 11, day |-> 31]

\* new Date(t.date).getMonth() and .getFullYear(): local time.
getMonth(d, zone) == LocalDate(d, zone).month
getFullYear(d, zone) == LocalDate(d, zone).year

(***************************************************************************)
(* 6. Reports page: profit and loss, cash flow, capital change, sales      *)
(***************************************************************************)
\* .reduce((sum, t) => sum + Number(t.amount), 0)
RECURSIVE SumAmounts(_)
SumAmounts(txs) ==
    IF txs = <<>> THEN 0 ELSE txs[1].amount + SumAmounts(Tail(txs))

months ==
    <<"Jan", "Feb", "Mar", "Apr", "Mei", "Jun",
      "Jul", "Agu", "Sep", "Okt", "Nov", "Des">>

\* One pass of the loop "for (let i = 11; i >= 0; i--)".
ProfitLossRow(txs, i, today, zone) ==
    LET monthIndex == (today.month - i + 12) % 12
        InMonth(t) == /\ getMonth(t.date, zone) = monthIndex
                      /\ getFullYear(t.date, zone) = today.year
        IsIncome(t) == t.type = "income"
        IsExpense(t) == t.type = "expense"
        monthTransactions == SelectSeq(txs, InMonth)
        income == SumAmounts(SelectSeq(monthTransactions, IsIncome))
        expense == SumAmounts(SelectSeq(monthTransactions, IsExpense))
    IN [month |-> months[monthIndex + 1], income |-> income,
        expense |-> expense, profit |-> income - expense]

\* plReports.reverse()
Reverse(seq) == [k \in 1..Len(seq) |-> seq[Len(seq) + 1 - k]]

\* The rows are pushed for i = 11, 10, ..., 0 and then reversed.
ProfitLoss(txs, today, zone) ==
    Reverse([k \in 1..12 |-> ProfitLossRow(txs, 12 - k, today, zone)])

\* The TOTAL row: profitLossData.reduce over income, expense and profit.
RECURSIVE SumRows(_)
SumRows(rows) ==
    IF rows = <<>> THEN [income |-> 0, expense |-> 0, profit |-> 0]
    ELSE LET rest == SumRows(Tail(rows)) IN
         [income |-> rows[1].income + rest.income,
          expense |-> rows[1].expense + rest.expense,
          profit |-> rows[1].profit + rest.profit]

\* Variant: cash in counts every income transaction, paid or not.
CashFlow_AllIncome(txs) ==
    LET PaidIncome(t) == t.type = "income"
        PaidExpense(t) == t.type = "expense" /\ t.payment_status = "paid"
        cashIn == SumAmounts(SelectSeq(txs, PaidIncome))
        cashOut == SumAmounts(SelectSeq(txs, PaidExpense))
    IN [cashIn |-> cashIn, cashOut |-> cashOut, netCash |-> cashIn - cashOut]

CashFlow(txs) ==
    LET PaidIncome(t) == t.type = "income" /\ t.payment_status = "paid"
        PaidExpense(t) == t.type = "expense" /\ t.payment_status = "paid"
        cashIn == SumAmounts(SelectSeq(txs, PaidIncome))
        cashOut == SumAmounts(SelectSeq(txs, PaidExpense))
    IN [cashIn |-> cashIn, cashOut |-> cashOut, netCash |-> cashIn - cashOut]

\* Variant: the dashboard's profit counts unpaid transactions too.
Stats_AllStatuses(txs) ==
    LET Income(t) == t.type = "income"
        Expense(t) == t.type = "expense"
        UnpaidIncome(t) == t.type = "income" /\ t.payment_status = "unpaid"
        income == SumAmounts(SelectSeq(txs, Income))
        expenses == SumAmounts(SelectSeq(txs, Expense))
    IN [income |-> income, expenses |-> expenses, profit |-> income - expenses,
        unpaid |-> SumAmounts(SelectSeq(txs, UnpaidIncome))]

\* The dashboard's all-time figures (App.tsx, stats).
Stats(txs) ==
    LET PaidIncome(t) == t.type = "income" /\ t.payment_status = "paid"
        PaidExpense(t) == t.type = "expense" /\ t.payment_status = "paid"
        UnpaidIncome(t) == t.type = "income" /\ t.payment_status = "unpaid"
        income == SumAmounts(SelectSeq(txs, PaidIncome))
        expenses == SumAmounts(SelectSeq(txs, PaidExpense))
    IN [income |-> income, expenses |-> expenses, profit |-> income - expenses,
        unpaid |-> SumAmounts(SelectSeq(txs, UnpaidIncome))]

\* Variant: net income leaves the expense balance out.
CapitalChange_RevenueOnly(list) ==
    LET lmap == ledgerMap(list)
        netIncome == BalanceOf(lmap, "401")
        beginningCapital == 0
        drawings == 0
    IN [beginningCapital |-> beginningCapital, netIncome |-> netIncome,
        drawings |-> drawings,
        endingCapital |-> beginningCapital + netIncome - drawings]

CapitalChange(list) ==
    LET lmap == ledgerMap(list)
        netIncome == BalanceOf(lmap, "401") - BalanceOf(lmap, "501")
        beginningCapital == 0
        drawings == 0
    IN [beginningCapital |-> beginningCapital, netIncome |-> netIncome,
        drawings |-> drawings,
        endingCapital |-> beginningCapital + netIncome - drawings]

\* Variant: total sales is net of expenses.
Sales_NetOfExpense(list) ==
    [totalSales |-> BalanceOf(ledgerMap(list), "401") - BalanceOf(ledgerMap(list), "501")]

Sales(list) == [totalSales |-> BalanceOf(ledgerMap(list), "401")]

(***************************************************************************)
(* 7. The other reports page: the balance sheet taken from the             *)
(*    transactions directly                                                *)
(***************************************************************************)
\* .reduce((sum, t) => sum + (t.type === 'income' ? amount : -amount), 0)
RECURSIVE SumSigned(_)
SumSigned(txs) ==
    IF txs = <<>> THEN 0
    ELSE (IF txs[1].type = "income" THEN txs[1].amount ELSE 0 - txs[1].amount)
         + SumSigned(Tail(txs))

\* Variant: cash is taken over every transaction, paid or not.
FilterBalanceSheet_CashUnfiltered(txs) ==
    LET UnpaidIncome(t) == t.type = "income" /\ t.payment_status = "unpaid"
        UnpaidExpense(t) == t.type = "expense" /\ t.payment_status = "unpaid"
        cash == SumSigned(txs)
        accountsReceivable == SumAmounts(SelectSeq(txs, UnpaidIncome))
        totalAssets == cash + accountsReceivable
        accountsPayable == SumAmounts(SelectSeq(txs, UnpaidExpense))
        totalLiabilities == accountsPayable
        equity == totalAssets - totalLiabilities
    IN [assets |-> [cash |-> cash, accountsReceivable |-> accountsReceivable,
                    total |-> totalAssets],
        liabilities |-> [accountsPayable |-> accountsPayable,
                         total |-> totalLiabilities],
        equity |-> [retainedEarnings |-> equity, total |-> equity]]

FilterBalanceSheet(txs) ==
    LET Paid(t) == t.payment_status = "paid"
        UnpaidIncome(t) == t.type = "income" /\ t.payment_status = "unpaid"
        UnpaidExpense(t) == t.type = "expense" /\ t.payment_status = "unpaid"
        cash == SumSigned(SelectSeq(txs, Paid))
        accountsReceivable == SumAmounts(SelectSeq(txs, UnpaidIncome))
        totalAssets == cash + accountsReceivable
        accountsPayable == SumAmounts(SelectSeq(txs, UnpaidExpense))
        totalLiabilities == accountsPayable
        equity == totalAssets - totalLiabilities
    IN [assets |-> [cash |-> cash, accountsReceivable |-> accountsReceivable,
                    total |-> totalAssets],
        liabilities |-> [accountsPayable |-> accountsPayable,
                         total |-> totalLiabilities],
        equity |-> [retainedEarnings |-> equity, total |-> equity]]

(***************************************************************************)
(* Specification: the pipeline applied to one list of transactions, as the *)
(* reports page runs it inside useMemo, and then a second time on the same *)
(* list, as the ledger page does.                                          *)
(***************************************************************************)
NoBalanceSheet == [assets |-> <<>>, liabilities |-> <<>>, equity |-> <<>>]
NotComputed == <<>>
NoRun == [journal |-> <<>>, ledgerList |-> <<>>, done |-> FALSE]

\* The clock and time zone of the browser the pages are rendered in.
Jakarta == "Asia/Jakarta"
Today == [year |-> 2026, month |-> 10]

NothingComputed ==
    /\ journal = <<>>
    /\ ledgerList = <<>>
    /\ balanceSheetData = NoBalanceSheet
    /\ profitLossData = NotComputed
    /\ cashFlowData = NotComputed
    /\ capitalChangeData = NotComputed
    /\ salesData = NotComputed
    /\ firstRun = NoRun
    /\ pc = "input"

\* The add-transaction form as useState creates it and as a successful add
\* resets it: today's date (new Date().toISOString().split('T')[0]), empty
\* description and amount, income, paid.
BlankForm ==
    [date |-> "2026-11-05", description |-> "", amount |-> "",
     type |-> "income", payment_status |-> "paid"]

\* The number of items a page shows first and adds per load-more step.
ITEMS_PER_PAGE(p) ==
    CASE p = "dashboard" -> 5
      [] p = "services" -> 10
      [] p = "journal" -> 20
      [] p = "ledger" -> 20

\* The dashboard on an empty list, nothing scrolled.
NoScroll ==
    /\ page = "dashboard"
    /\ listLength = 0
    /\ displayedCount = ITEMS_PER_PAGE("dashboard")
    /\ isLoadingMore = FALSE
    /\ timers = <<>>

\* useState of the form, the two modals and the service list.
FormInit ==
    /\ newTransaction = BlankForm
    /\ showAddTransaction = FALSE
    /\ showAddService = FALSE
    /\ services = <<>>
    /\ NoScroll

\* A page studied on its own: its transactions are given, no call is pending.
PageAlone ==
    /\ db = <<>>
    /\ requests = <<>>
    /\ nextId = 1
    /\ FormInit

Init ==
    /\ \E n \in 0..MaxLen : \E f \in [1..n -> TransactionFields] :
         transactions = TransactionList(n, f)
    /\ now = Today
    /\ tz = Jakarta
    /\ NothingComputed
    /\ PageAlone

\* The same pipeline fed records that nothing has validated.
RawInit ==
    /\ \E n \in 0..MaxLen : \E f \in [1..n -> RawTransactionFields] :
         transactions = TransactionList(n, f)
    /\ now = Today
    /\ tz = Jakarta
    /\ NothingComputed
    /\ PageAlone

\* The reports page in any browser: the clock and the time zone vary, and the
\* records include dates on the first day of a month and of the year.
ProfitLossDatedDescriptions ==
    DatedDescriptions \cup
      {[date |-> "2026-03-01", description |-> "Isi Freon R32/R410"],
       [date |-> "2026-01-01", description |-> "Iklan Facebook Ads"]}

ProfitLossFields ==
    [text : ProfitLossDatedDescriptions, amount : 0..MaxAmount,
     type : TransactionType, payment_status : PaymentStatus]

Clocks == {Today, [year |-> 2027, month |-> 0]}
TimeZones == {Jakarta, "America/New_York"}

ProfitLossInit ==
    /\ \E n \in 0..MaxLen : \E f \in [1..n -> ProfitLossFields] :
         transactions = TransactionList(n, f)
    /\ now \in Clocks
    /\ tz \in TimeZones
    /\ NothingComputed
    /\ PageAlone

CallGenerateJournal ==
    /\ pc = "input"
    /\ journal' = generateJournal(transactions)
    /\ pc' = "journal"
    /\ UNCHANGED <<transactions, ledgerList, reports, firstRun, env, scroll, form, app>>

CallGenerateLedger ==
    /\ pc = "journal"
    /\ ledgerList' = generateLedger(journal)
    /\ pc' = "ledger"
    /\ UNCHANGED <<transactions, journal, reports, firstRun, env, scroll, form, app>>

\* The rest of the useMemo callback: the five reports, returned together.
ComputeReports ==
    /\ pc = "ledger"
    /\ profitLossData' = ProfitLoss(transactions, now, tz)
    /\ balanceSheetData' = BalanceSheet(ledgerList)
    /\ cashFlowData' = CashFlow(transactions)
    /\ capitalChangeData' = CapitalChange(ledgerList)
    /\ salesData' = Sales(ledgerList)
    /\ pc' = "reports"
    /\ UNCHANGED <<transactions, journal, ledgerList, firstRun, env, scroll, form, app>>

\* Another page is rendered from the same list and runs the pipeline again;
\* what the first run returned is kept for comparison.
RunAgain ==
    /\ pc = "reports"
    /\ ~firstRun.done
    /\ firstRun' = [journal |-> journal, ledgerList |-> ledgerList, done |-> TRUE]
    /\ pc' = "input"
    /\ UNCHANGED <<transactions, journal, ledgerList, reports, env, scroll, form, app>>

Next ==
    \/ CallGenerateJournal
    \/ CallGenerateLedger
    \/ ComputeReports
    \/ RunAgain

Spec == Init /\ [][Next]_vars

RawSpec == RawInit /\ [][Next]_vars

ProfitLossSpec == ProfitLossInit /\ [][Next]_vars

(***************************************************************************)
(* Operators used to state the properties.                                 *)
(***************************************************************************)
RECURSIVE SumDebit(_)
SumDebit(lines) ==
    IF lines = <<>> THEN 0 ELSE lines[1].debit + SumDebit(Tail(lines))

RECURSIVE SumCredit(_)
SumCredit(lines) ==
    IF lines = <<>> THEN 0 ELSE lines[1].credit + SumCredit(Tail(lines))

JournalDone == pc \in {"journal", "ledger", "reports"}
LedgerDone == pc \in {"ledger", "reports"}

\* The posting of a line without the display name.
Posting(line) ==
    [accountId |-> line.accountId, debit |-> line.debit, credit |-> line.credit]

\* The rule table of the journal generator, row by row.
RuleTable(t) ==
    CASE t.type = "income" /\ t.payment_status = "paid" ->
           <<[accountId |-> "401", debit |-> 0, credit |-> t.amount],
             [accountId |-> "101", debit |-> t.amount, credit |-> 0]>>
      [] t.type = "income" /\ t.payment_status = "unpaid" ->
           <<[accountId |-> "401", debit |-> 0, credit |-> t.amount],
             [accountId |-> "102", debit |-> t.amount, credit |-> 0]>>
      [] t.type = "expense" /\ t.payment_status = "paid" ->
           <<[accountId |-> "501", debit |-> t.amount, credit |-> 0],
             [accountId |-> "101", debit |-> 0, credit |-> t.amount]>>
      [] t.type = "expense" /\ t.payment_status = "unpaid" ->
           <<[accountId |-> "501", debit |-> t.amount, credit |-> 0],
             [accountId |-> "201", debit |-> 0, credit |-> t.amount]>>

\* The account of the ledger list with this code (the list holds it once).
AccountsWithCode(code) ==
    {i \in 1..Len(ledgerList) : ledgerList[i].code = code}

LedgerBalance(code) ==
    ledgerList[CHOOSE i \in AccountsWithCode(code) : TRUE].balance

\* A record inside the declared domain of Transaction.
IsValid(t) ==
    /\ t.amount >= 0
    /\ t.type \in TransactionType
    /\ t.payment_status \in PaymentStatus

\* The fold of an entry list under a normal-balance side.
RECURSIVE SignedSum(_, _)
SignedSum(entries, normalBalance) ==
    IF entries = <<>> THEN 0
    ELSE (IF normalBalance = "Debit"
          THEN entries[1].debit - entries[1].credit
          ELSE entries[1].credit - entries[1].debit)
         + SignedSum(Tail(entries), normalBalance)

\* The accounts the rule table posts a transaction to.
PostsTo(t, code) ==
    \E k \in DOMAIN RuleTable(t) : RuleTable(t)[k].accountId = code

DateAndDescription(seq) ==
    [k \in 1..Len(seq) |-> <<seq[k].date, seq[k].description>>]

\* The permutations of 1..n and the list they rearrange.
Permutations(n) ==
    {p \in [1..n -> 1..n] : \A a, b \in 1..n : p[a] = p[b] => a = b}

Permuted(seq, p) == [k \in 1..Len(seq) |-> seq[p[k]]]

Occurrences(seq, x) == Cardinality({k \in 1..Len(seq) : seq[k] = x})

SamePostings(a, b) ==
    /\ Len(a) = Len(b)
    /\ \A k \in 1..Len(a) : Occurrences(a, a[k]) = Occurrences(b, a[k])

(***************************************************************************)
(* C1: double-entry balance.  For every transaction handed to              *)
(* generateJournal, the debits of its entry and the credits of its entry   *)
(* both add up to the transaction's amount.                                *)
(***************************************************************************)
C1_EntryBalanced ==
    JournalDone =>
      \A i \in 1..Len(transactions) :
        /\ i \in DOMAIN journal
        /\ SumDebit(journal[i].lines) = transactions[i].amount
        /\ SumCredit(journal[i].lines) = transactions[i].amount

C1_Witness ==
    /\ pc = "journal"
    /\ Len(transactions) = 2
    /\ transactions[1].type = "income" /\ transactions[1].amount = 2
    /\ transactions[2].type = "expense" /\ transactions[2].amount = 1
    /\ SumDebit(journal[1].lines) = 2 /\ SumCredit(journal[2].lines) = 1

C3_RuleTable ==
    JournalDone =>
      \A i \in 1..Len(transactions) :
        /\ i \in DOMAIN journal
        /\ [k \in DOMAIN journal[i].lines |-> Posting(journal[i].lines[k])]
             = RuleTable(transactions[i])

C3_Witness ==
    /\ pc = "journal"
    /\ Len(transactions) = 2
    /\ transactions[1].type = "income" /\ transactions[1].payment_status = "unpaid"
    /\ transactions[1].amount = 2
    /\ transactions[2].type = "expense" /\ transactions[2].payment_status = "paid"
    /\ transactions[2].amount = 1
    /\ journal[1].lines[2].accountId = "102"
    /\ journal[2].lines[2].accountId = "101"

(***************************************************************************)
(* C4: one entry per transaction, in input order.  The journal is as long  *)
(* as the input and its i-th entry carries the id, date and description of *)
(* the i-th transaction.                                                   *)
(***************************************************************************)
C4_OneEntryPerTransaction ==
    JournalDone =>
      /\ Len(journal) = Len(transactions)
      /\ \A i \in 1..Len(transactions) :
           /\ journal[i].id = transactions[i].id
           /\ journal[i].date = transactions[i].date
           /\ journal[i].description = transactions[i].description

C4_Witness ==
    /\ pc = "journal"
    /\ Len(transactions) = 2
    /\ transactions[1].date # transactions[2].date
    /\ transactions[1].description # transactions[2].description
    /\ Len(journal) = 2

(***************************************************************************)
(* C5 as stated: every entry has exactly two lines and in each line        *)
(* exactly one of debit and credit is nonzero, for every amount >= 0,      *)
(* amount 0 included.                                                      *)
(***************************************************************************)
C5_ExactlyOneNonzero ==
    JournalDone =>
      \A i \in 1..Len(journal) :
        /\ Len(journal[i].lines) = 2
        /\ \A k \in 1..Len(journal[i].lines) :
             (journal[i].lines[k].debit # 0) # (journal[i].lines[k].credit # 0)

(***************************************************************************)
(* C5 amended: every entry has exactly two lines; in each line one of      *)
(* debit and credit is 0 and the other is the transaction's amount, so     *)
(* exactly one of them is nonzero when amount > 0 and both are 0 when the  *)
(* amount is 0.                                                            *)
(***************************************************************************)
C5_TwoLinesOneSided ==
    JournalDone =>
      \A i \in 1..Len(transactions) :
        /\ i \in DOMAIN journal
        /\ Len(journal[i].lines) = 2
        /\ \A k \in 1..Len(journal[i].lines) :
             LET l == journal[i].lines[k]
                 amount == transactions[i].amount
             IN /\ \/ l.debit = 0 /\ l.credit = amount
                   \/ l.credit = 0 /\ l.debit = amount
                /\ amount > 0 => ((l.debit # 0) # (l.credit # 0))
                /\ amount = 0 => (l.debit = 0 /\ l.credit = 0)

C5_Witness ==
    /\ pc = "journal"
    /\ Len(transactions) = 2
    /\ transactions[1].amount = 0
    /\ transactions[2].amount = 2
    /\ journal[1].lines[1].debit = 0 /\ journal[1].lines[1].credit = 0
    /\ journal[2].lines[1].debit + journal[2].lines[1].credit = 2

(***************************************************************************)
(* C6: an invalid transaction (negative amount, type outside               *)
(* {income, expense}, payment_status outside {paid, unpaid}) gets no       *)
(* journal entry; every transaction yields either a balanced two-line      *)
(* entry or no entry at all.                                               *)
(***************************************************************************)
C6_InvalidRejected ==
    JournalDone =>
      \A i \in 1..Len(transactions) :
        LET t == transactions[i]
            emitted == {k \in 1..Len(journal) : journal[k].id = t.id}
        IN /\ ~IsValid(t) => emitted = {}
           /\ \A k \in emitted :
                /\ Len(journal[k].lines) = 2
                /\ SumDebit(journal[k].lines) = t.amount
                /\ SumCredit(journal[k].lines) = t.amount

(***************************************************************************)
(* C7: ledger completeness.  generateLedger returns exactly one account    *)
(* per chart entry (8 accounts, each code once) for every journal; for the *)
(* empty journal every account has balance 0 and no entries.               *)
(***************************************************************************)
C7_LedgerComplete ==
    LedgerDone =>
      /\ Len(ledgerList) = 8
      /\ Cardinality(DOMAIN CHART_OF_ACCOUNTS) = 8
      /\ \A c \in DOMAIN CHART_OF_ACCOUNTS : Cardinality(AccountsWithCode(c)) = 1
      /\ journal = <<>> =>
           \A i \in 1..Len(ledgerList) :
             ledgerList[i].balance = 0 /\ ledgerList[i].entries = <<>>

C7_Witness ==
    /\ pc = "ledger"
    /\ transactions = <<>>
    /\ journal = <<>>
    /\ Len(ledgerList) = 8
    /\ ledgerList[1].code = "101" /\ ledgerList[1].entries = <<>>

(***************************************************************************)
(* C8: every account's balance is the sum over its posted entries of       *)
(* debit - credit when its normal balance is Debit, and of credit - debit  *)
(* when it is Credit.                                                      *)
(***************************************************************************)
C8_BalanceIsFold ==
    LedgerDone =>
      \A i \in 1..Len(ledgerList) :
        ledgerList[i].balance =
          SignedSum(ledgerList[i].entries,
                    CHART_OF_ACCOUNTS[ledgerList[i].code].normalBalance)

C8_Witness ==
    /\ pc = "ledger"
    /\ Len(transactions) = 2
    /\ Len(ledgerList[1].entries) = 2
    /\ ledgerList[1].balance = -1
    /\ LedgerBalance("401") = 1
    /\ LedgerBalance("501") = 2

(***************************************************************************)
(* C9: posting order.  An account's entry list is the subsequence of the   *)
(* input transactions that post to the account, in input order, each with  *)
(* the transaction's date and description.                                 *)
(***************************************************************************)
C9_EntriesInInputOrder ==
    LedgerDone =>
      \A i \in 1..Len(ledgerList) :
        LET Posts(t) == PostsTo(t, ledgerList[i].code)
        IN DateAndDescription(ledgerList[i].entries)
             = DateAndDescription(SelectSeq(transactions, Posts))

C9_Witness ==
    /\ pc = "ledger"
    /\ Len(transactions) = 2
    /\ transactions[1].date = "2026-02-10"
    /\ transactions[2].date = "2026-01-15"
    /\ transactions[1].description # transactions[2].description
    /\ Len(ledgerList[1].entries) = 2
    /\ ledgerList[1].entries[1].date = "2026-02-10"
    /\ ledgerList[1].entries[2].date = "2026-01-15"

(***************************************************************************)
(* C10: reordering.  For every permutation of the transaction list, the    *)
(* ledger of the permuted list gives every account the same balance and    *)
(* the same postings; only the order of the postings differs.              *)
(***************************************************************************)
C10_ReorderKeepsBalances ==
    pc = "ledger" =>
      \A p \in Permutations(Len(transactions)) :
        \A other \in {generateLedger(generateJournal(Permuted(transactions, p)))} :
          /\ Len(other) = Len(ledgerList)
          /\ \A i \in 1..Len(ledgerList) :
               /\ other[i].code = ledgerList[i].code
               /\ other[i].balance = ledgerList[i].balance
               /\ SamePostings(other[i].entries, ledgerList[i].entries)

C10_Witness ==
    /\ pc = "ledger"
    /\ Len(transactions) = 2
    /\ transactions[1].date # transactions[2].date
    /\ transactions[1].type = "expense" /\ transactions[1].payment_status = "paid"
    /\ transactions[1].amount = 2
    /\ transactions[2].type = "income" /\ transactions[2].payment_status = "paid"
    /\ transactions[2].amount = 1
    /\ ledgerList[1].balance = -1
    /\ generateLedger(generateJournal(Permuted(transactions, <<2, 1>>)))[1].entries
         # ledgerList[1].entries

(***************************************************************************)
(* 8. The application (App.tsx) and the datastore                          *)
(***************************************************************************)
MaxRows == 2        \* rows the datastore ever generates a key for
MaxRequests == 2    \* datastore calls awaited at the same time

\* What the "add transaction" form can submit: parseFloat(amount) is sent as
\* it is, the type and the payment status come from two-option selects.
\* The modelled submissions: a service job as income or a purchase as expense,
\* with an amount the table refuses and one it accepts.
FormAmounts == {-1, MaxAmount}

FormText(type) ==
    CHOOSE text \in DatedDescriptions :
      text.date = (IF type = "income" THEN "2026-01-15" ELSE "2026-02-10")

FormFields ==
    {[text |-> FormText(type), amount |-> amount, type |-> type,
      payment_status |-> status] :
       amount \in FormAmounts, type \in TransactionType, status \in PaymentStatus}

\* Variant: a table without CHECK constraints.
CheckConstraints_None(row) == TRUE

\* The CHECK constraints of the transactions table.
CheckConstraints(row) ==
    /\ row.amount >= 0
    /\ row.type \in {"income", "expense"}
    /\ row.payment_status \in {"paid", "unpaid"}

\* .order('date', { ascending: false }): any order of the rows in which the
\* dates never increase (rows of the same date come in any order).
DateKey(d) == ParseDate(d).year * 10000 + ParseDate(d).month * 100 + ParseDate(d).day

OrderByDateDesc(rows) ==
    {s \in {Permuted(rows, p) : p \in Permutations(Len(rows))} :
       \A k \in 1..(Len(s) - 1) : DateKey(s[k].date) >= DateKey(s[k + 1].date)}

\* prev.map((t) => (t.id === id ? { ...t, payment_status: 'paid' } : t)), and
\* update({ payment_status: 'paid' }).eq('id', id) on the table.
\* Variant: the marked row is moved to the head of the list.
MarkPaid_MovedFirst(txs, id) ==
    LET Marked(t) == t.id = id
        Other(t) == t.id # id
        Paid(t) == [t EXCEPT !.payment_status = "paid"]
    IN [k \in 1..Len(SelectSeq(txs, Marked)) |-> Paid(SelectSeq(txs, Marked)[k])]
         \o SelectSeq(txs, Other)

\* Variant: the status of the row is toggled.
MarkPaid_Toggle(txs, id) ==
    [k \in 1..Len(txs) |->
       IF txs[k].id = id
       THEN [txs[k] EXCEPT !.payment_status = IF @ = "paid" THEN "unpaid" ELSE "paid"]
       ELSE txs[k]]

\* Variant: every row of the list is marked, whatever its id.
MarkPaid_EveryRow(txs, id) ==
    [k \in 1..Len(txs) |-> [txs[k] EXCEPT !.payment_status = "paid"]]

MarkPaid(txs, id) ==
    [k \in 1..Len(txs) |->
       IF txs[k].id = id THEN [txs[k] EXCEPT !.payment_status = "paid"] ELSE txs[k]]

\* prev.filter((t) => t.id !== id), and delete().eq('id', id) on the table.
RemoveById(txs, id) ==
    LET Other(t) == t.id # id IN SelectSeq(txs, Other)

\* The rows of the services table (price numeric CHECK (price >= 0)), as the
\* select of fetchData returns them.
ServiceTable ==
    <<[id |-> 1, name |-> "Cuci AC Split 0.5 - 1 PK", price |-> 1],
      [id |-> 2, name |-> "Isi Freon R32/R410", price |-> MaxAmount]>>

\* A datastore call being awaited: what was sent, and once the datastore has
\* answered, the result the awaiting handler will see.  rows holds the row to
\* insert, the snapshot previousTransactions of a delete, or the data fetched.
Request(kind, id, rows) ==
    [kind |-> kind, id |-> id, rows |-> rows, phase |-> "sent", result |-> "none"]

Answer(r, result, rows) ==
    [r EXCEPT !.phase = "replied", !.result = result, !.rows = rows]

Awaiting(kind, phase) ==
    {i \in 1..Len(requests) : requests[i].kind = kind /\ requests[i].phase = phase}

Dropped(seq, i) == [k \in 1..(Len(seq) - 1) |-> IF k < i THEN seq[k] ELSE seq[k + 1]]

\* setTransactions re-renders the pages: the useMemo hooks recompute the
\* journal, the ledger and the reports from the new list.
Render(txs) ==
    /\ journal' = generateJournal(txs)
    /\ ledgerList' = generateLedger(generateJournal(txs))
    /\ balanceSheetData' = BalanceSheet(generateLedger(generateJournal(txs)))
    /\ profitLossData' = ProfitLoss(txs, now, tz)
    /\ cashFlowData' = CashFlow(txs)
    /\ capitalChangeData' = CapitalChange(generateLedger(generateJournal(txs)))
    /\ salesData' = Sales(generateLedger(generateJournal(txs)))

\* The application is mounted: the list is empty, the pages are rendered from
\* it, and the fetchData of the mount effect is awaited.
AppInit ==
    /\ transactions = <<>>
    /\ journal = generateJournal(<<>>)
    /\ ledgerList = generateLedger(<<>>)
    /\ balanceSheetData = BalanceSheet(generateLedger(<<>>))
    /\ profitLossData = ProfitLoss(<<>>, Today, Jakarta)
    /\ cashFlowData = CashFlow(<<>>)
    /\ capitalChangeData = CapitalChange(generateLedger(<<>>))
    /\ salesData = Sales(generateLedger(<<>>))
    /\ firstRun = NoRun
    /\ now = Today
    /\ tz = Jakarta
    /\ db = <<>>
    /\ requests = <<Request("fetch", 0, <<>>)>>
    /\ nextId = 1
    /\ FormInit
    /\ pc = "reports"

\* handleAddTransaction up to its await: the insert is sent.
HandleAddTransaction(f) ==
    /\ Len(requests) < MaxRequests
    /\ nextId + Cardinality(Awaiting("insert", "sent")) <= MaxRows
    /\ requests' = Append(requests, Request("insert", 0, <<Transaction(0, f)>>))
    /\ UNCHANGED <<transactions, rendered, firstRun, env, scroll, form, db, nextId, pc>>

\* The datastore runs the insert: a row that passes the CHECK constraints is
\* stored under a fresh key; the call can also fail without storing anything,
\* or store the row and fail to deliver its answer.
ServeInsert(i) ==
    /\ i \in Awaiting("insert", "sent")
    /\ \/ /\ CheckConstraints(requests[i].rows[1])
          /\ db' = Append(db, [requests[i].rows[1] EXCEPT !.id = nextId])
          /\ nextId' = nextId + 1
          /\ \E result \in {"ok", "error"} :
               requests' = [requests EXCEPT ![i] = Answer(@, result, @.rows)]
       \/ /\ requests' = [requests EXCEPT ![i] = Answer(@, "error", @.rows)]
          /\ UNCHANGED <<db, nextId>>
    /\ UNCHANGED <<transactions, rendered, firstRun, env, scroll, form, pc>>

\* handleAddTransaction after its await: on success the form is reset and
\* fetchData is called; on an error only an alert is shown.
ReceiveInsert(i) ==
    /\ i \in Awaiting("insert", "replied")
    /\ IF requests[i].result = "ok"
       THEN /\ showAddTransaction' = FALSE
            /\ newTransaction' = BlankForm
            /\ requests' = Append(Dropped(requests, i), Request("fetch", 0, <<>>))
       ELSE /\ requests' = Dropped(requests, i)
            /\ UNCHANGED <<showAddTransaction, newTransaction>>
    /\ UNCHANGED <<transactions, rendered, firstRun, env, scroll, showAddService, services,
                   db, nextId, pc>>

\* handleMarkAsPaid up to its await, from the "Lunasi" button of an unpaid
\* transaction: the list is updated optimistically and the update is sent.
HandleMarkAsPaid(id) ==
    /\ Len(requests) < MaxRequests
    /\ \E k \in 1..Len(transactions) :
         transactions[k].id = id /\ transactions[k].payment_status = "unpaid"
    /\ transactions' = MarkPaid(transactions, id)
    /\ Render(MarkPaid(transactions, id))
    /\ requests' = Append(requests, Request("update", id, <<>>))
    /\ UNCHANGED <<firstRun, env, scroll, form, db, nextId, pc>>

ServeUpdate(i) ==
    /\ i \in Awaiting("update", "sent")
    /\ \/ /\ db' = MarkPaid(db, requests[i].id)
          /\ \E result \in {"ok", "error"} :
               requests' = [requests EXCEPT ![i] = Answer(@, result, @.rows)]
       \/ /\ requests' = [requests EXCEPT ![i] = Answer(@, "error", @.rows)]
          /\ UNCHANGED db
    /\ UNCHANGED <<transactions, rendered, firstRun, env, scroll, form, nextId, pc>>

\* handleMarkAsPaid after its await: on an error, "revert by refetching".
ReceiveUpdate(i) ==
    /\ i \in Awaiting("update", "replied")
    /\ requests' = IF requests[i].result = "ok"
                   THEN Dropped(requests, i)
                   ELSE Append(Dropped(requests, i), Request("fetch", 0, <<>>))
    /\ UNCHANGED <<transactions, rendered, firstRun, env, scroll, form, db, nextId, pc>>

\* handleDeleteTransaction up to its await: previousTransactions is kept, the
\* row is filtered out of the list and the delete is sent.
HandleDeleteTransaction(id) ==
    /\ Len(requests) < MaxRequests
    /\ \E k \in 1..Len(transactions) : transactions[k].id = id
    /\ transactions' = RemoveById(transactions, id)
    /\ Render(RemoveById(transactions, id))
    /\ requests' = Append(requests, Request("delete", id, transactions))
    /\ UNCHANGED <<firstRun, env, scroll, form, db, nextId, pc>>

ServeDelete(i) ==
    /\ i \in Awaiting("delete", "sent")
    /\ \/ /\ db' = RemoveById(db, requests[i].id)
          /\ \E result \in {"ok", "error"} :
               requests' = [requests EXCEPT ![i] = Answer(@, result, @.rows)]
       \/ /\ requests' = [requests EXCEPT ![i] = Answer(@, "error", @.rows)]
          /\ UNCHANGED db
    /\ UNCHANGED <<transactions, rendered, firstRun, env, scroll, form, nextId, pc>>

\* Variant: a failed delete only refetches, the list is not set back.
ReceiveDelete_NoRollback(i) ==
    /\ i \in Awaiting("delete", "replied")
    /\ requests' = IF requests[i].result = "ok"
                   THEN Dropped(requests, i)
                   ELSE Append(Dropped(requests, i), Request("fetch", 0, <<>>))
    /\ UNCHANGED <<transactions, rendered, firstRun, env, scroll, form, db, nextId, pc>>

\* handleDeleteTransaction after its await: on an error the list is set back
\* to previousTransactions and fetchData is called.
ReceiveDelete(i) ==
    /\ i \in Awaiting("delete", "replied")
    /\ IF requests[i].result = "ok"
       THEN /\ requests' = Dropped(requests, i)
            /\ UNCHANGED <<transactions, rendered>>
       ELSE /\ transactions' = requests[i].rows
            /\ Render(requests[i].rows)
            /\ requests' = Append(Dropped(requests, i), Request("fetch", 0, <<>>))
    /\ UNCHANGED <<firstRun, env, scroll, form, db, nextId, pc>>

\* The datastore runs the select of fetchData, or the call fails.
ServeFetch(i) ==
    /\ i \in Awaiting("fetch", "sent")
    /\ \/ \E data \in OrderByDateDesc(db) :
            requests' = [requests EXCEPT ![i] = Answer(@, "ok", data)]
       \/ requests' = [requests EXCEPT ![i] = Answer(@, "error", <<>>)]
    /\ UNCHANGED <<transactions, rendered, firstRun, env, scroll, form, db, nextId, pc>>

\* fetchData after its await: if (transactionsResult.data) setTransactions.
ReceiveFetch(i) ==
    /\ i \in Awaiting("fetch", "replied")
    /\ IF requests[i].result = "ok"
       THEN /\ services' = ServiceTable
            /\ transactions' = requests[i].rows
            /\ Render(requests[i].rows)
       ELSE UNCHANGED <<services, transactions, rendered>>
    /\ requests' = Dropped(requests, i)
    /\ UNCHANGED <<firstRun, env, scroll, newTransaction, showAddTransaction, showAddService,
                   db, nextId, pc>>

AppNext ==
    \/ \E f \in FormFields : HandleAddTransaction(f)
    \/ \E id \in 1..MaxRows : HandleMarkAsPaid(id)
    \/ \E id \in 1..MaxRows : HandleDeleteTransaction(id)
    \/ \E i \in 1..MaxRequests :
         \/ ServeInsert(i) \/ ReceiveInsert(i)
         \/ ServeUpdate(i) \/ ReceiveUpdate(i)
         \/ ServeDelete(i) \/ ReceiveDelete(i)
         \/ ServeFetch(i) \/ ReceiveFetch(i)

AppSpec == AppInit /\ [][AppNext]_vars

(***************************************************************************)
(* 9. The add-transaction form and the service templates (App.tsx)         *)
(***************************************************************************)
MaxSubmissions == 1     \* submissions of the form that are followed through

\* Number.prototype.toString and parseFloat on the amounts of the model.
NumberToString(n) ==
    CASE n = -1 -> "-1"
      [] n = 0 -> "0"
      [] n = 1 -> "1"
      [] n = 2 -> "2"
      [] n = 3 -> "3"
      [] n = 4 -> "4"

parseFloat(str) == CHOOSE n \in (-1)..4 : NumberToString(n) = str

\* The dates picked in the form's date input.
FormDates == {"2026-11-05", "2026-01-15"}

\* The buttons that open and close the two modals.
OpenAddTransaction ==
    /\ ~showAddTransaction
    /\ showAddTransaction' = TRUE
    /\ UNCHANGED <<transactions, rendered, firstRun, env, scroll, app, newTransaction,
                   showAddService, services, pc>>

CloseAddTransaction ==
    /\ showAddTransaction
    /\ showAddTransaction' = FALSE
    /\ UNCHANGED <<transactions, rendered, firstRun, env, scroll, app, newTransaction,
                   showAddService, services, pc>>

OpenAddService ==
    /\ ~showAddService
    /\ showAddService' = TRUE
    /\ UNCHANGED <<transactions, rendered, firstRun, env, scroll, app, newTransaction,
                   showAddTransaction, services, pc>>

CloseAddService ==
    /\ showAddService
    /\ showAddService' = FALSE
    /\ UNCHANGED <<transactions, rendered, firstRun, env, scroll, app, newTransaction,
                   showAddTransaction, services, pc>>

\* The onChange handlers of the date input and of the two selects.
EditDate(date) ==
    /\ showAddTransaction
    /\ newTransaction.date # date
    /\ newTransaction' = [newTransaction EXCEPT !.date = date]
    /\ UNCHANGED <<transactions, rendered, firstRun, env, scroll, app, showAddTransaction,
                   showAddService, services, pc>>

EditType(type) ==
    /\ showAddTransaction
    /\ newTransaction.type # type
    /\ newTransaction' = [newTransaction EXCEPT !.type = type]
    /\ UNCHANGED <<transactions, rendered, firstRun, env, scroll, app, showAddTransaction,
                   showAddService, services, pc>>

EditPaymentStatus(status) ==
    /\ showAddTransaction
    /\ newTransaction.payment_status # status
    /\ newTransaction' = [newTransaction EXCEPT !.payment_status = status]
    /\ UNCHANGED <<transactions, rendered, firstRun, env, scroll, app, showAddTransaction,
                   showAddService, services, pc>>

\* Variant: the form is rebuilt from its initial values around the service.
UseServiceForTransaction_FromBlank(k) ==
    /\ k \in 1..Len(services)
    /\ newTransaction' = [BlankForm EXCEPT
                            !.description = services[k].name,
                            !.amount = NumberToString(services[k].price)]
    /\ showAddService' = FALSE
    /\ showAddTransaction' = TRUE
    /\ UNCHANGED <<transactions, rendered, firstRun, env, scroll, app, services, pc>>

\* useServiceForTransaction(service), from a card of the services page.
UseServiceForTransaction(k) ==
    /\ k \in 1..Len(services)
    /\ newTransaction' = [newTransaction EXCEPT
                            !.description = services[k].name,
                            !.amount = NumberToString(services[k].price)]
    /\ showAddService' = FALSE
    /\ showAddTransaction' = TRUE
    /\ UNCHANGED <<transactions, rendered, firstRun, env, scroll, app, services, pc>>

\* The form is submitted: the required inputs are filled, the amount is not
\* below the input's min, and handleAddTransaction sends what the form holds.
SubmitForm ==
    /\ showAddTransaction
    /\ newTransaction.description # ""
    /\ newTransaction.amount # ""
    /\ parseFloat(newTransaction.amount) >= 0
    /\ nextId + Cardinality(Awaiting("insert", "sent")) <= MaxSubmissions
    /\ HandleAddTransaction(
         [text |-> [date |-> newTransaction.date,
                    description |-> newTransaction.description],
          amount |-> parseFloat(newTransaction.amount),
          type |-> newTransaction.type,
          payment_status |-> newTransaction.payment_status])

FormNext ==
    \/ OpenAddTransaction \/ CloseAddTransaction
    \/ OpenAddService \/ CloseAddService
    \/ \E date \in FormDates : EditDate(date)
    \/ \E type \in TransactionType : EditType(type)
    \/ \E status \in PaymentStatus : EditPaymentStatus(status)
    \/ \E k \in 1..Len(ServiceTable) : UseServiceForTransaction(k)
    \/ SubmitForm
    \/ \E i \in 1..MaxRequests :
         \/ ServeInsert(i) \/ ReceiveInsert(i)
         \/ ServeFetch(i) \/ ReceiveFetch(i)

FormSpec == AppInit /\ [][FormNext]_vars

(***************************************************************************)
(* 10. Infinite scroll (DashboardPage, ServicesPage, JournalPage,          *)
(*     LedgerPage)                                                         *)
(***************************************************************************)
MaxItems == 45      \* the longest list scrolled

Pages == {"dashboard", "services", "journal", "ledger"}

\* The pages whose loadMore sets displayedCount from a 300 ms timeout.
DelayedPages == {"journal", "ledger"}

\* The pages that set displayedCount back when the list shown is switched
\* (the search of the services, the active account of the ledger).
SwitchingPages == {"services", "ledger"}

\* The list lengths of the model: empty, shorter than a page, a page, one more
\* than a page, and several pages.
ListLengths == {0, 3, 20, 21, MaxItems}

Min(a, b) == IF a <= b THEN a ELSE b

hasMore == displayedCount < listLength

ScrollInit ==
    /\ transactions = <<>>
    /\ now = Today
    /\ tz = Jakarta
    /\ NothingComputed
    /\ db = <<>> /\ requests = <<>> /\ nextId = 1
    /\ newTransaction = BlankForm
    /\ showAddTransaction = FALSE
    /\ showAddService = FALSE
    /\ services = <<>>
    /\ page \in Pages
    /\ listLength \in ListLengths
    /\ displayedCount = ITEMS_PER_PAGE(page)
    /\ isLoadingMore = FALSE
    /\ timers = <<>>

\* loadMore of the dashboard and of the services page, called by the
\* observer when the sentinel is in view.
LoadMore ==
    /\ page \notin DelayedPages
    /\ hasMore
    /\ displayedCount' = Min(displayedCount + ITEMS_PER_PAGE(page), listLength)
    /\ UNCHANGED <<transactions, rendered, firstRun, env, app, form, page,
                   listLength, isLoadingMore, timers, pc>>

\* loadMore of the journal and of the ledger page up to its setTimeout: the
\* callback closes over the length of the list rendered now.
LoadMoreDelayed ==
    /\ page \in DelayedPages
    /\ ~isLoadingMore
    /\ hasMore
    /\ isLoadingMore' = TRUE
    /\ timers' = Append(timers, listLength)
    /\ UNCHANGED <<transactions, rendered, firstRun, env, app, form, page,
                   listLength, displayedCount, pc>>

\* The timeout callback of loadMore.
LoadMoreTimeout ==
    /\ timers # <<>>
    /\ displayedCount' = Min(displayedCount + ITEMS_PER_PAGE(page), Head(timers))
    /\ isLoadingMore' = FALSE
    /\ timers' = Tail(timers)
    /\ UNCHANGED <<transactions, rendered, firstRun, env, app, form, page,
                   listLength, pc>>

\* The list the page is given changes (the transactions or the services were
\* set again).
ListChanges(n) ==
    /\ n # listLength
    /\ listLength' = n
    /\ UNCHANGED <<transactions, rendered, firstRun, env, app, form, page,
                   displayedCount, isLoadingMore, timers, pc>>

\* Another list is shown (search of the services page, account of the ledger
\* page): the effect sets displayedCount back to ITEMS_PER_PAGE.
SwitchList(n) ==
    /\ page \in SwitchingPages
    /\ listLength' = n
    /\ displayedCount' = ITEMS_PER_PAGE(page)
    /\ UNCHANGED <<transactions, rendered, firstRun, env, app, form, page,
                   isLoadingMore, timers, pc>>

ScrollNext ==
    \/ LoadMore
    \/ LoadMoreDelayed
    \/ LoadMoreTimeout
    \/ \E n \in ListLengths : ListChanges(n)
    \/ \E n \in ListLengths : SwitchList(n)

\* The observer calls loadMore whenever the sentinel is in view and there is
\* more to show, and a timeout that was set runs.
ScrollSpec ==
    /\ ScrollInit
    /\ [][ScrollNext]_vars
    /\ WF_vars(LoadMore)
    /\ WF_vars(LoadMoreDelayed)
    /\ WF_vars(LoadMoreTimeout)

(***************************************************************************)
(* Operators used to state the properties of the reports.                  *)
(***************************************************************************)
\* The sum of the amounts of the transactions at the positions in S.
RECURSIVE AmountAt(_, _)
AmountAt(txs, S) ==
    IF S = {} THEN 0
    ELSE LET i == CHOOSE x \in S : TRUE
         IN txs[i].amount + AmountAt(txs, S \ {i})

Positions(txs, type, status) ==
    {i \in 1..Len(txs) : txs[i].type = type /\ txs[i].payment_status = status}

Total(txs, type, status) == AmountAt(txs, Positions(txs, type, status))

TotalOfType(txs, type) == Total(txs, type, "paid") + Total(txs, type, "unpaid")

Without(txs, i) ==
    [k \in 1..(Len(txs) - 1) |-> IF k < i THEN txs[k] ELSE txs[k + 1]]

HasUnpaid(txs) == \E i \in 1..Len(txs) : txs[i].payment_status = "unpaid"

C12_CashFlow ==
    pc = "reports" =>
      /\ cashFlowData.cashIn = Total(transactions, "income", "paid")
      /\ cashFlowData.cashOut = Total(transactions, "expense", "paid")
      /\ cashFlowData.netCash = cashFlowData.cashIn - cashFlowData.cashOut
      /\ \A i \in 1..Len(transactions) :
           transactions[i].payment_status = "unpaid" =>
             /\ CashFlow(Without(transactions, i)) = cashFlowData
             /\ \A a \in 0..MaxAmount :
                  CashFlow([transactions EXCEPT ![i].amount = a]) = cashFlowData
      /\ \A f \in TransactionFields :
           f.payment_status = "unpaid" =>
             CashFlow(Append(transactions, Transaction(Len(transactions) + 1, f)))
               = cashFlowData

C12_Witness ==
    /\ pc = "reports"
    /\ Len(transactions) = 2
    /\ transactions[1].type = "income" /\ transactions[1].payment_status = "paid"
    /\ transactions[2].type = "income" /\ transactions[2].payment_status = "unpaid"
    /\ transactions[2].amount = 2
    /\ cashFlowData = [cashIn |-> 1, cashOut |-> 0, netCash |-> 1]

(***************************************************************************)
(* C15: monthly profit and loss.  The report has one row per calendar      *)
(* month, each month once; a row's income and expense are the sums of the  *)
(* income and expense amounts of the transactions dated in that month of   *)
(* the current year, paid or unpaid; profit = income - expense; the totals *)
(* are the sums over the transactions dated in the current year.           *)
(***************************************************************************)
DatedIn(txs, type, year, month) ==
    {i \in 1..Len(txs) :
       /\ txs[i].type = type
       /\ ParseDate(txs[i].date).year = year
       /\ ParseDate(txs[i].date).month = month}

DatedInYear(txs, type, year) ==
    {i \in 1..Len(txs) : txs[i].type = type /\ ParseDate(txs[i].date).year = year}

C15_MonthlyProfitLoss ==
    pc = "reports" =>
      /\ Len(profitLossData) = 12
      /\ \A m \in 0..11 :
           \E k \in 1..12 :
             /\ profitLossData[k].month = months[m + 1]
             /\ \A j \in 1..12 : profitLossData[j].month = months[m + 1] => j = k
             /\ profitLossData[k].income
                  = AmountAt(transactions, DatedIn(transactions, "income", now.year, m))
             /\ profitLossData[k].expense
                  = AmountAt(transactions, DatedIn(transactions, "expense", now.year, m))
             /\ profitLossData[k].profit
                  = profitLossData[k].income - profitLossData[k].expense
      /\ SumRows(profitLossData).income
           = AmountAt(transactions, DatedInYear(transactions, "income", now.year))
      /\ SumRows(profitLossData).expense
           = AmountAt(transactions, DatedInYear(transactions, "expense", now.year))
      /\ SumRows(profitLossData).profit
           = SumRows(profitLossData).income - SumRows(profitLossData).expense

(***************************************************************************)
(* C16 as stated: some list of valid transactions holding an unpaid one    *)
(* makes the two balance sheets (from the ledger, from the transactions)   *)
(* differ in cash, receivable, payable, total assets, total liabilities or *)
(* total equity, whatever stage the page is at.                            *)
(***************************************************************************)
SameBalanceSheet(a, b) ==
    /\ a.assets.cash = b.assets.cash
    /\ a.assets.accountsReceivable = b.assets.accountsReceivable
    /\ a.assets.total = b.assets.total
    /\ a.liabilities.accountsPayable = b.liabilities.accountsPayable
    /\ a.liabilities.total = b.liabilities.total
    /\ a.equity.total = b.equity.total

C16_SomeListDiffers ==
    \E n \in 0..MaxLen : \E f \in [1..n -> TransactionFields] :
      /\ pc \in {"input", "journal", "ledger", "reports"}
      /\ HasUnpaid(TransactionList(n, f))
      /\ ~SameBalanceSheet(
            BalanceSheet(generateLedger(generateJournal(TransactionList(n, f)))),
            FilterBalanceSheet(TransactionList(n, f)))

(***************************************************************************)
(* C16 amended: for every list of valid transactions, with unpaid ones or  *)
(* not, the two balance sheets have the same cash, receivable, payable,    *)
(* total assets, total liabilities and total equity.                       *)
(***************************************************************************)
C16_BalanceSheetsAgree ==
    pc = "reports" =>
      SameBalanceSheet(balanceSheetData, FilterBalanceSheet(transactions))

C16_Witness ==
    /\ pc = "reports"
    /\ Len(transactions) = 2
    /\ transactions[1].type = "income" /\ transactions[1].payment_status = "unpaid"
    /\ transactions[1].amount = 2
    /\ transactions[2].type = "expense" /\ transactions[2].payment_status = "unpaid"
    /\ transactions[2].amount = 1
    /\ balanceSheetData.assets.accountsReceivable = 2
    /\ FilterBalanceSheet(transactions).equity.total = 1

(***************************************************************************)
(* C17: ledger balances in closed form.  Cash = paid income - paid         *)
(* expense, Accounts-Receivable = unpaid income, Accounts-Payable = unpaid *)
(* expense, Revenue = all income, Expense = all expense; 301, 302 and 303  *)
(* have balance 0 and no entries.                                          *)
(***************************************************************************)
C17_LedgerBalances ==
    LedgerDone =>
      /\ LedgerBalance("101") = Total(transactions, "income", "paid")
                                  - Total(transactions, "expense", "paid")
      /\ LedgerBalance("102") = Total(transactions, "income", "unpaid")
      /\ LedgerBalance("201") = Total(transactions, "expense", "unpaid")
      /\ LedgerBalance("401") = TotalOfType(transactions, "income")
      /\ LedgerBalance("501") = TotalOfType(transactions, "expense")
      /\ \A i \in 1..Len(ledgerList) :
           ledgerList[i].code \in {"301", "302", "303"} =>
             ledgerList[i].balance = 0 /\ ledgerList[i].entries = <<>>

C17_Witness ==
    /\ pc = "ledger"
    /\ Len(transactions) = 1
    /\ transactions[1].type = "income" /\ transactions[1].payment_status = "paid"
    /\ transactions[1].amount = 2
    /\ LedgerBalance("101") = 2 /\ LedgerBalance("401") = 2
    /\ \A i \in 1..Len(ledgerList) :
         ledgerList[i].code \notin {"101", "401"} => ledgerList[i].balance = 0

(***************************************************************************)
(* C18: capital change.  beginningCapital = 0, drawings = 0, netIncome =   *)
(* Revenue balance - Expense balance, endingCapital = beginningCapital +   *)
(* netIncome - drawings, and endingCapital is the balance sheet's retained *)
(* earnings.                                                               *)
(***************************************************************************)
C18_CapitalChange ==
    pc = "reports" =>
      /\ capitalChangeData.beginningCapital = 0
      /\ capitalChangeData.drawings = 0
      /\ capitalChangeData.netIncome = LedgerBalance("401") - LedgerBalance("501")
      /\ capitalChangeData.endingCapital =
           capitalChangeData.beginningCapital + capitalChangeData.netIncome
             - capitalChangeData.drawings
      /\ capitalChangeData.endingCapital = balanceSheetData.equity.retainedEarnings

C18_Witness ==
    /\ pc = "reports"
    /\ Len(transactions) = 2
    /\ LedgerBalance("401") = 1
    /\ LedgerBalance("501") = 2
    /\ capitalChangeData.endingCapital = -1

(***************************************************************************)
(* C19: sales.  totalSales is the Revenue balance, which is the sum of the *)
(* amounts of all income transactions, paid or unpaid; the expense         *)
(* transactions do not affect it.                                          *)
(***************************************************************************)
IncomeOnly(txs) ==
    LET IsIncome(t) == t.type = "income" IN SelectSeq(txs, IsIncome)

C19_TotalSales ==
    pc = "reports" =>
      /\ salesData.totalSales = LedgerBalance("401")
      /\ salesData.totalSales = TotalOfType(transactions, "income")
      /\ Sales(generateLedger(generateJournal(IncomeOnly(transactions)))) = salesData

C19_Witness ==
    /\ pc = "reports"
    /\ Len(transactions) = 2
    /\ transactions[1].type = "income" /\ transactions[1].payment_status = "unpaid"
    /\ transactions[1].amount = 2
    /\ transactions[2].type = "expense" /\ transactions[2].amount = 1
    /\ salesData.totalSales = 2

(***************************************************************************)
(* C13: the cash-flow totals count paid transactions only, so an unpaid    *)
(* transaction contributes nothing; when handleMarkAsPaid marks an unpaid  *)
(* transaction, it is flipped in place and the recomputed cash flow has    *)
(* cashIn (income) or cashOut (expense) higher by exactly its amount, the  *)
(* other total unchanged.                                                  *)
(***************************************************************************)
C13_MarkAsPaidAddsAmountOnce ==
    [][/\ cashFlowData'.cashIn = Total(transactions', "income", "paid")
       /\ cashFlowData'.cashOut = Total(transactions', "expense", "paid")
       /\ \A id \in 1..MaxRows :
            requests' = Append(requests, Request("update", id, <<>>)) =>
              \E k \in 1..Len(transactions) :
                /\ transactions[k].id = id
                /\ transactions[k].payment_status = "unpaid"
                /\ transactions' = [transactions EXCEPT ![k].payment_status = "paid"]
                /\ cashFlowData'.cashIn = cashFlowData.cashIn +
                     (IF transactions[k].type = "income" THEN transactions[k].amount ELSE 0)
                /\ cashFlowData'.cashOut = cashFlowData.cashOut +
                     (IF transactions[k].type = "expense" THEN transactions[k].amount ELSE 0)
      ]_vars

C13_Witness ==
    /\ Len(transactions) = 2
    /\ transactions[1].type = "expense" /\ transactions[1].payment_status = "unpaid"
    /\ transactions[2].type = "income" /\ transactions[2].payment_status = "paid"
    /\ \E i \in Awaiting("update", "sent") : requests[i].id = transactions[2].id
    /\ \E k \in 1..Len(db) :
         db[k].id = transactions[2].id /\ db[k].payment_status = "unpaid"
    /\ cashFlowData = [cashIn |-> MaxAmount, cashOut |-> 0, netCash |-> MaxAmount]

(***************************************************************************)
(* C14 as stated: no step of the application changes the payment status of *)
(* a transaction in its list from paid to unpaid.                          *)
(***************************************************************************)
C14_NeverPaidToUnpaid ==
    [][\A a \in 1..Len(transactions) : \A b \in 1..Len(transactions') :
         (transactions[a].id = transactions'[b].id
            /\ transactions[a].payment_status = "paid")
           => transactions'[b].payment_status = "paid"]_vars

(***************************************************************************)
(* C14 amended: in the datastore a paid transaction never becomes unpaid;  *)
(* in the application's list a transaction goes from paid back to unpaid   *)
(* only when the list is replaced by the data of a fetch or by the         *)
(* previousTransactions of a failed delete.                                *)
(***************************************************************************)
C14_PaidToUnpaidOnlyByReplacement ==
    [][/\ \A a \in 1..Len(db) : \A b \in 1..Len(db') :
            (db[a].id = db'[b].id /\ db[a].payment_status = "paid")
              => db'[b].payment_status = "paid"
       /\ (\E a \in 1..Len(transactions) : \E b \in 1..Len(transactions') :
             /\ transactions[a].id = transactions'[b].id
             /\ transactions[a].payment_status = "paid"
             /\ transactions'[b].payment_status = "unpaid")
           => \E i \in 1..Len(requests) :
                /\ requests[i].phase = "replied"
                /\ \/ requests[i].kind = "fetch" /\ requests[i].result = "ok"
                   \/ requests[i].kind = "delete" /\ requests[i].result = "error"
                /\ transactions' = requests[i].rows
                /\ Len(requests') <= Len(requests)
      ]_vars

C14_Witness ==
    \E k \in 1..Len(transactions) : \E i \in Awaiting("fetch", "replied") :
      /\ transactions[k].payment_status = "paid"
      /\ requests[i].result = "ok"
      /\ \E j \in 1..Len(requests[i].rows) :
           /\ requests[i].rows[j].id = transactions[k].id
           /\ requests[i].rows[j].payment_status = "unpaid"

(***************************************************************************)
(* C20: whatever adds, mark-as-paid and deletes have happened, every       *)
(* transaction the application holds (and every row of the table) has      *)
(* amount >= 0, type income or expense and payment status paid or unpaid.  *)
(***************************************************************************)
C20_HeldTransactionsValid ==
    /\ \A k \in 1..Len(transactions) :
         /\ transactions[k].amount >= 0
         /\ transactions[k].type \in TransactionType
         /\ transactions[k].payment_status \in PaymentStatus
    /\ \A k \in 1..Len(db) :
         /\ db[k].amount >= 0
         /\ db[k].type \in TransactionType
         /\ db[k].payment_status \in PaymentStatus

C20_Witness ==
    /\ Len(transactions) = 1
    /\ transactions = db
    /\ transactions[1].payment_status = "paid"
    /\ \E i \in Awaiting("insert", "replied") :
         requests[i].result = "error" /\ requests[i].rows[1].amount = -1

(***************************************************************************)
(* C21 as stated: any two accounts of the same category have the same      *)
(* normal balance side (read off the accounts of a generated ledger and    *)
(* their rows in CHART_OF_ACCOUNTS).                                       *)
(***************************************************************************)
NormalBalanceOf(account) == CHART_OF_ACCOUNTS[account.code].normalBalance

C21_SideFixedByCategory ==
    LedgerDone =>
      \A i, j \in 1..Len(ledgerList) :
        ledgerList[i].type = ledgerList[j].type
          => NormalBalanceOf(ledgerList[i]) = NormalBalanceOf(ledgerList[j])

(***************************************************************************)
(* C21 amended: the normal balance side is fixed per account.  Accounts of *)
(* the same category share it in Asset, Liability, Revenue and Expense and *)
(* among 301 and 302; Prive (303) is an Equity account on the Debit side,  *)
(* opposite to the other Equity accounts.                                  *)
(***************************************************************************)
C21_SideFixedByCategoryButPrive ==
    LedgerDone =>
      /\ \A i, j \in 1..Len(ledgerList) :
           (ledgerList[i].type = ledgerList[j].type
              /\ ledgerList[i].code # "303" /\ ledgerList[j].code # "303")
             => NormalBalanceOf(ledgerList[i]) = NormalBalanceOf(ledgerList[j])
      /\ \A i \in 1..Len(ledgerList) :
           ledgerList[i].code = "303" =>
             ledgerList[i].type = "Equity" /\ NormalBalanceOf(ledgerList[i]) = "Debit"
      /\ \A i \in 1..Len(ledgerList) :
           (ledgerList[i].type = "Equity" /\ ledgerList[i].code # "303")
             => NormalBalanceOf(ledgerList[i]) = "Credit"

C21_Witness ==
    /\ pc = "ledger"
    /\ {ledgerList[i].type : i \in 1..Len(ledgerList)}
         = {"Asset", "Liability", "Equity", "Revenue", "Expense"}
    /\ \E i, j \in 1..Len(ledgerList) :
         /\ ledgerList[i].code = "303" /\ ledgerList[j].code = "301"
         /\ ledgerList[i].type = ledgerList[j].type

(***************************************************************************)
(* C26: the cash flow's netCash, the Cash (101) balance shown on the       *)
(* balance sheet and the dashboard's stats.profit are the same number,     *)
(* paid income minus paid expenses.                                        *)
(***************************************************************************)
C26_NetCashIsCashIsProfit ==
    pc = "reports" =>
      /\ cashFlowData.netCash = balanceSheetData.assets.cash
      /\ balanceSheetData.assets.cash = LedgerBalance("101")
      /\ cashFlowData.netCash = Stats(transactions).profit
      /\ Stats(transactions).profit =
           Total(transactions, "income", "paid") - Total(transactions, "expense", "paid")

C26_Witness ==
    /\ pc = "reports"
    /\ Len(transactions) = 2
    /\ HasUnpaid(transactions)
    /\ cashFlowData.netCash = -2
    /\ Stats(transactions) = [income |-> 0, expenses |-> 2, profit |-> -2, unpaid |-> 1]

(***************************************************************************)
(* C27: trial balance.  Over all entries posted in the ledger the debit    *)
(* amounts and the credit amounts have the same total; and the balances of *)
(* the Debit-normal accounts sum to the same as those of the Credit-normal *)
(* accounts.                                                               *)
(***************************************************************************)
RECURSIVE PostedSide(_, _, _)
PostedSide(list, k, side) ==
    IF k > Len(list) THEN 0
    ELSE (IF side = "Debit" THEN SumDebit(list[k].entries)
                            ELSE SumCredit(list[k].entries))
         + PostedSide(list, k + 1, side)

RECURSIVE BalancesOfSide(_, _, _)
BalancesOfSide(list, k, side) ==
    IF k > Len(list) THEN 0
    ELSE (IF NormalBalanceOf(list[k]) = side THEN list[k].balance ELSE 0)
         + BalancesOfSide(list, k + 1, side)

C27_TrialBalance ==
    LedgerDone =>
      /\ PostedSide(ledgerList, 1, "Debit") = PostedSide(ledgerList, 1, "Credit")
      /\ BalancesOfSide(ledgerList, 1, "Debit") = BalancesOfSide(ledgerList, 1, "Credit")

C27_Witness ==
    /\ pc = "ledger"
    /\ Len(transactions) = 2
    /\ transactions[1].type = "expense" /\ transactions[1].payment_status = "paid"
    /\ transactions[2].type = "income" /\ transactions[2].payment_status = "unpaid"
    /\ PostedSide(ledgerList, 1, "Debit") = 3
    /\ BalancesOfSide(ledgerList, 1, "Credit") = 1

(***************************************************************************)
(* C28: with valid transactions every account balance other than Cash      *)
(* (101) is >= 0; the Cash balance is negative exactly when the paid       *)
(* expenses exceed the paid income.                                        *)
(***************************************************************************)
C28_OnlyCashCanBeNegative ==
    LedgerDone =>
      /\ \A i \in 1..Len(ledgerList) :
           ledgerList[i].code # "101" => ledgerList[i].balance >= 0
      /\ LedgerBalance("101") < 0
           <=> Total(transactions, "expense", "paid") > Total(transactions, "income", "paid")

C28_Witness ==
    /\ pc = "ledger"
    /\ Len(transactions) = 2
    /\ LedgerBalance("101") = -1
    /\ LedgerBalance("201") = 0
    /\ LedgerBalance("102") = 0

(***************************************************************************)
(* C22: no side effects.  A call of generateJournal leaves the transaction *)
(* list as it was, a call of generateLedger leaves the journal and the     *)
(* transaction list as they were; neither touches the ledger an earlier    *)
(* call returned; the accounts of the returned ledger carry the chart's    *)
(* rows and hold the postings of this call's journal only.                 *)
(***************************************************************************)
LinesTo(jrnl, code) ==
    {<<k, l>> \in (1..Len(jrnl)) \X (1..2) :
       l <= Len(jrnl[k].lines) /\ jrnl[k].lines[l].accountId = code}

C24_UseServiceOnlyFillsForm ==
    [][(/\ newTransaction'.description # ""
        /\ \/ newTransaction'.description # newTransaction.description
           \/ newTransaction'.amount # newTransaction.amount)
       =>
       /\ \E k \in 1..Len(services) :
            /\ newTransaction'.description = services[k].name
            /\ parseFloat(newTransaction'.amount) = services[k].price
       /\ newTransaction'.date = newTransaction.date
       /\ newTransaction'.type = newTransaction.type
       /\ newTransaction'.payment_status = newTransaction.payment_status
       /\ transactions' = transactions
       /\ services' = services
       /\ showAddService' = FALSE
       /\ showAddTransaction' = TRUE
       /\ db' = db
       /\ requests' = requests
       /\ nextId' = nextId
      ]_vars

C24_Witness ==
    /\ newTransaction =
         [date |-> "2026-01-15", description |-> "Isi Freon R32/R410",
          amount |-> NumberToString(MaxAmount), type |-> "expense",
          payment_status |-> "unpaid"]
    /\ showAddTransaction
    /\ ~showAddService
    /\ Len(services) = 2
    /\ db = <<>> /\ transactions = <<>> /\ requests = <<>>

(***************************************************************************)
(* C23: handleDeleteTransaction.  The call removes the transaction from    *)
(* the list at once, keeping the others in order, and sends the delete.    *)
(* When the delete is answered with a failure the list is set back to the  *)
(* list as it was before the call, which holds the transaction again, and  *)
(* a fetch is sent; when it is answered with success the handler leaves    *)
(* the list as it is.                                                      *)
(***************************************************************************)
Ids(txs) == {txs[k].id : k \in 1..Len(txs)}

C23_DeleteOptimisticWithRollback ==
    [][/\ \A id \in 1..MaxRows :
            requests' = Append(requests, Request("delete", id, transactions)) =>
              /\ id \in Ids(transactions)
              /\ id \notin Ids(transactions')
              /\ \E k \in 1..Len(transactions) :
                   /\ transactions[k].id = id
                   /\ transactions' = Without(transactions, k)
       /\ \A i \in 1..Len(requests) :
            (/\ requests[i].kind = "delete" /\ requests[i].phase = "replied"
             /\ \/ requests' = Dropped(requests, i)
                \/ /\ Len(requests') = Len(requests)
                   /\ requests' # requests
                   /\ SubSeq(requests', 1, Len(requests) - 1) = Dropped(requests, i))
              => IF requests[i].result = "ok"
                 THEN /\ transactions' = transactions
                      /\ requests' = Dropped(requests, i)
                 ELSE /\ transactions' = requests[i].rows
                      /\ requests[i].id \in Ids(transactions')
                      /\ requests' = Append(Dropped(requests, i),
                                            Request("fetch", 0, <<>>))
      ]_vars

C23_Witness ==
    \E i \in Awaiting("delete", "replied") :
      /\ requests[i].result = "error"
      /\ requests[i].id \in Ids(requests[i].rows)
      /\ requests[i].id \notin Ids(transactions)
      /\ requests[i].id \in Ids(db)

(***************************************************************************)
(* C25: whenever no datastore call is awaited, the application's list      *)
(* holds exactly the rows of the table, each with the payment status the   *)
(* table has.                                                              *)
(***************************************************************************)
Rows(txs) == {txs[k] : k \in 1..Len(txs)}

C25_ListMatchesDatastoreWhenIdle ==
    requests = <<>> =>
      /\ Len(transactions) = Len(db)
      /\ Rows(transactions) = Rows(db)

(***************************************************************************)
(* C29: the optimistic update of handleMarkAsPaid(id) keeps the length and *)
(* the order of the list, leaves every other transaction as it was, and    *)
(* changes nothing of the transaction with that id but its payment status, *)
(* which becomes paid; applied for an id that is absent or already paid it *)
(* gives back the same list.                                               *)
(***************************************************************************)
C29_MarkAsPaidFrame ==
    [][/\ \A id \in 1..MaxRows :
            requests' = Append(requests, Request("update", id, <<>>)) =>
              /\ Len(transactions') = Len(transactions)
              /\ \A k \in 1..Len(transactions) :
                   /\ transactions'[k].id = transactions[k].id
                   /\ transactions'[k].date = transactions[k].date
                   /\ transactions'[k].description = transactions[k].description
                   /\ transactions'[k].amount = transactions[k].amount
                   /\ transactions'[k].type = transactions[k].type
                   /\ transactions'[k].payment_status =
                        IF transactions[k].id = id THEN "paid"
                        ELSE transactions[k].payment_status
       /\ \A id \in 0..(MaxRows + 1) :
            (\A k \in 1..Len(transactions') :
               transactions'[k].id = id => transactions'[k].payment_status = "paid")
              => MarkPaid(transactions', id) = transactions'
      ]_vars

C29_Witness ==
    /\ Len(transactions) = 2
    /\ Len(db) = 2
    /\ \E i \in Awaiting("update", "sent") : requests[i].id = transactions[2].id
    /\ transactions[2].payment_status = "paid"
    /\ transactions[1].payment_status = "unpaid"
    /\ \A k \in 1..2 : db[k].payment_status = "unpaid"
    /\ transactions[1] \in Rows(db)

(***************************************************************************)
(* C30 as stated: a load-more step never decreases displayedCount, raises  *)
(* it by at most ITEMS_PER_PAGE and not beyond the length of the list, and *)
(* happens only while displayedCount is below that length; and unless the  *)
(* list keeps changing, load-more is repeated until every item is shown.   *)
(***************************************************************************)
C30_LoadMoreUpToListLength ==
    /\ [][/\ (timers # <<>> /\ timers' = <<>>) => displayedCount' >= displayedCount
          /\ displayedCount' > displayedCount =>
               /\ displayedCount < listLength
               /\ displayedCount' <= displayedCount + ITEMS_PER_PAGE(page)
               /\ displayedCount' <= listLength
         ]_vars
    /\ \/ []<><<listLength' # listLength \/ displayedCount' < displayedCount>>_vars
       \/ <>[](~hasMore)

====
